---- MODULE Spec2Model ----
(***************************************************************************)
(* GeoLead Bridge browser extension.                                       *)
(*                                                                         *)
(*   geoguessr_content.js  reads the page's __NEXT_DATA__ element, builds  *)
(*                         a game summary (classic or daily quiz) and      *)
(*                         stores it in chrome.storage.local under         *)
(*                         geoguessrLastGame, gated by a signature.        *)
(*   geolead_content.js    on a click reads geoguessrLastGame, builds the  *)
(*                         import payload and POSTs it to the backend.     *)
(*                                                                         *)
(* JavaScript values are records [t, n]: t is the typeof-like tag and n    *)
(* the number (for "number") or an identifier (for "string"/"object").     *)
(* A property that is absent reads as undefined, so Undefined stands for   *)
(* both.  String identifier 0 is the empty string.                         *)
(***************************************************************************)
EXTENDS Integers, Sequences, FiniteSets, TLC

\* ------------------------------------------------------------------ bounds
MaxRounds == 2
MaxGuesses == 2
MaxRequests == 1
MaxPayloadRounds == 3

\* ------------------------------------------------------- JavaScript values
Undefined == [t |-> "undefined", n |-> 0]
Null == [t |-> "null", n |-> 0]
Num(k) == [t |-> "number", n |-> k]
Str(k) == [t |-> "string", n |-> k]
Obj(k) == [t |-> "object", n |-> k]

IsNullish(v) == v.t \in {"undefined", "null"}

\* typeof v === "number"
IsNumber(v) == v.t = "number"

\* ToBoolean(v)
Truthy(v) ==
  CASE v.t = "undefined" -> FALSE
    [] v.t = "null" -> FALSE
    [] v.t = "number" -> v.n # 0
    [] v.t = "string" -> v.n # 0
    [] OTHER -> TRUE

\* a || b
Or(a, b) == IF Truthy(a) THEN a ELSE b

\* a ?? b
Coalesce(a, b) == IF IsNullish(a) THEN b ELSE a

\* the elements of a sequence as a set
Range(s) == {s[i] : i \in 1..Len(s)}

\* all sequences over S of length at most n
SeqsUpTo(S, n) == UNION {[1..k -> S] : k \in 0..n}

Min(a, b) == IF a < b THEN a ELSE b
Max(a, b) == IF a > b THEN a ELSE b

\* Array.prototype.slice(0, end) for a numeric end: a negative end counts
\* from the back, the result is clamped to the array.
SliceTo(arr, end) ==
  LET L == Len(arr)
      k == IF ~IsNumber(end) THEN 0
           ELSE IF end.n < 0 THEN Max(L + end.n, 0)
           ELSE Min(end.n, L)
  IN SubSeq(arr, 1, k)

\* A guess object that is missing (null / undefined / absent).
NoGuess ==
  [present |-> FALSE, roundNumber |-> Undefined,
   distanceInMeters |-> Undefined, distance |-> Undefined,
   roundScoreInPoints |-> Undefined, scoreInPoints |-> Undefined,
   score |-> Undefined, lat |-> Undefined, lng |-> Undefined]

\* guess?.field
OptGuess(g, field) == IF g.present THEN g[field] ELSE Undefined

\* { lat: guess.lat, lng: guess.lng } or null
GuessLatLng(g) ==
  IF g.present THEN [present |-> TRUE, lat |-> g.lat, lng |-> g.lng]
  ELSE [present |-> FALSE, lat |-> Undefined, lng |-> Undefined]

\* typeof distance === "number" ? distance / 1000 : null
\* (every numeric distance of the model is a whole number of kilometres or
\* is kept in thousandths: the quotient is recorded as the pair it is)
DistanceKm(distance) ==
  IF IsNumber(distance) THEN [t |-> "number", n |-> distance.n, per |-> 1000]
  ELSE [t |-> "null", n |-> 0, per |-> 1]

\* A player that is missing.
NoPlayer ==
  [present |-> FALSE, totalScore |-> Undefined, amount |-> Undefined,
   score |-> Undefined]

\* myPlayer?.totalScore?.amount : the amount field exists only on an object
TotalScoreAmount(p) ==
  IF ~p.present \/ IsNullish(p.totalScore) THEN Undefined
  ELSE IF p.totalScore.t = "object" THEN p.amount
  ELSE Undefined

\* ------------------------------------------------------ classic normalizer
\* One round of the classic summary (the callback of rounds.map).
ClassicRound(rnd, i) ==
  LET guess == IF Len(rnd.guesses) > 0 /\ rnd.guesses[1].present
               THEN rnd.guesses[1]
               ELSE rnd.guess
      distance == Coalesce(OptGuess(guess, "distanceInMeters"),
                  Coalesce(OptGuess(guess, "distance"),
                  Coalesce(rnd.distanceInMeters, Null)))
      score == Coalesce(OptGuess(guess, "roundScoreInPoints"),
               Coalesce(OptGuess(guess, "scoreInPoints"),
               Coalesce(rnd.roundScoreInPoints, Null)))
  IN [round |-> Num(i),
      distance_m |-> distance,
      distance_km |-> DistanceKm(distance),
      score |-> score,
      correct |-> [lat |-> rnd.lat, lng |-> rnd.lng],
      guess |-> GuessLatLng(guess)]

\* game.currentRoundNumber || game.round || rounds.length
ClassicRoundCount(game) ==
  Or(Or(game.currentRoundNumber, game.round), Num(Len(game.rounds)))

\* myPlayer?.totalScore?.amount ?? myPlayer?.totalScore ?? myPlayer?.score ?? null
ClassicTotalScore(game) ==
  LET players == IF game.hasPlayers THEN game.players
                 ELSE IF game.player.present THEN <<game.player>> ELSE <<>>
      myPlayer == IF Len(players) > 0 THEN players[1] ELSE NoPlayer
  IN Coalesce(TotalScoreAmount(myPlayer),
     Coalesce(IF myPlayer.present THEN myPlayer.totalScore ELSE Undefined,
     Coalesce(IF myPlayer.present THEN myPlayer.score ELSE Undefined,
              Null)))

\* The result of a builder: either it threw (a TypeError on a null array
\* entry) or it returned a summary.
Threw == [threw |-> TRUE, none |-> TRUE]
Returned(s) == [threw |-> FALSE, none |-> FALSE, summary |-> s]
ReturnedNull == [threw |-> FALSE, none |-> TRUE]

buildClassicSummary(game, user) ==
  LET map == game.map
      mapImage == Or(map.coverUrl, Or(map.thumbnailUrl, Or(map.imageUrl, Null)))
      played == SliceTo(game.rounds, ClassicRoundCount(game))
  IN IF \E i \in 1..Len(played) : played[i].isNull
     THEN Threw
     ELSE Returned(
       [source |-> "geoguessr",
        mode |-> "classic",
        token |-> Or(game.token, Null),
        dailyQuizId |-> Undefined,
        quizId |-> Undefined,
        user |-> user,
        map |-> [id |-> Or(map.id, Null), name |-> Or(map.name, Null),
                 slug |-> Or(map.slug, Null), image |-> mapImage],
        total_score |-> ClassicTotalScore(game),
        total_distance_m |-> Undefined,
        max_score |-> Undefined,
        total_rounds |-> Undefined,
        rounds |-> [i \in 1..Len(played) |-> ClassicRound(played[i], i)]])

\* --------------------------------------------------- daily-quiz normalizer
\* Mutant of GuessByRound: the guess is taken by its position in the list,
\* guesses[roundNumber - 1].
GuessByPosition(guesses, roundNumber) ==
  IF IsNumber(roundNumber) /\ roundNumber.n \in 1..Len(guesses)
  THEN guesses[roundNumber.n]
  ELSE NoGuess

\* guessByRound[roundNumber] || null : the lookup built by the for-of loop,
\* in which a later guess with the same roundNumber overwrites an earlier
\* one and a null guess or a guess without roundNumber is skipped.
GuessByRound(guesses, roundNumber) ==
  LET hits == {i \in 1..Len(guesses) :
                 /\ guesses[i].present
                 /\ ~IsNullish(guesses[i].roundNumber)
                 /\ guesses[i].roundNumber = roundNumber}
  IN IF hits = {} THEN NoGuess
     ELSE guesses[CHOOSE i \in hits : \A j \in hits : j <= i]

\* One round of the daily-quiz summary (the callback of rounds.map).
QuizRound(guesses, r, idx) ==
  LET roundNumber == Coalesce(r.roundNumber, Num(idx))
      guess == GuessByRound(guesses, roundNumber)
      correctLat == IF r.hasPano THEN r.panoLat ELSE Undefined
      correctLng == IF r.hasPano THEN r.panoLng ELSE Undefined
      distance == IF IsNumber(OptGuess(guess, "distance"))
                  THEN guess.distance ELSE Null
      score == IF IsNumber(OptGuess(guess, "score"))
               THEN guess.score ELSE Null
  IN [round |-> roundNumber,
      distance_m |-> distance,
      distance_km |-> DistanceKm(distance),
      score |-> score,
      correct |-> [lat |-> correctLat, lng |-> correctLng],
      guess |-> GuessLatLng(guess)]

buildDailyQuizSummary(quizGame, user, dailyQuizId) ==
  LET guesses == quizGame.guesses
      rounds == quizGame.rounds
  IN IF \E i \in 1..Len(rounds) : rounds[i].isNull
     THEN Threw
     ELSE Returned(
       [source |-> "geoguessr",
        mode |-> "daily-quiz",
        token |-> Undefined,
        dailyQuizId |-> Or(dailyQuizId, Null),
        quizId |-> Or(quizGame.quizId, Null),
        user |-> user,
        map |-> [id |-> Undefined, name |-> Undefined,
                 slug |-> Undefined, image |-> Undefined],
        total_score |-> Coalesce(quizGame.totalScore, Null),
        total_distance_m |-> Undefined,
        max_score |-> Coalesce(quizGame.maxScore, Null),
        total_rounds |-> Coalesce(quizGame.totalRounds, Num(Len(rounds))),
        rounds |-> [i \in 1..Len(rounds) |-> QuizRound(guesses, rounds[i], i)]])

\* ---------------------------------------------------------- payload builder
\* One round of the payload (the callback of roundsSource.map).
PayloadRound(r) ==
  [score |-> IF IsNumber(r.score) THEN r.score ELSE Num(0),
   distance_m |-> IF IsNumber(r.distance_m) THEN r.distance_m ELSE Null,
   guess_lat |-> IF r.guess.present /\ IsNumber(r.guess.lat)
                 THEN r.guess.lat ELSE Null,
   guess_lng |-> IF r.guess.present /\ IsNumber(r.guess.lng)
                 THEN r.guess.lng ELSE Null,
   target_lat |-> IF IsNumber(r.correct.lat) THEN r.correct.lat ELSE Null,
   target_lng |-> IF IsNumber(r.correct.lng) THEN r.correct.lng ELSE Null]

\* rounds.reduce((acc, r) => acc + (r[field] || 0), 0) over payload rounds,
\* whose field is a number or null
RECURSIVE ReduceSum(_, _)
ReduceSum(rounds, field) ==
  IF rounds = <<>> THEN 0
  ELSE LET r == rounds[Len(rounds)]
           add == IF Truthy(r[field]) THEN r[field].n ELSE 0
       IN ReduceSum(SubSeq(rounds, 1, Len(rounds) - 1), field) + add

\* Mutant of buildImportPayload: the totals fall back to the sums only when
\* the summary's totals are null or undefined (?? in place of typeof).
buildImportPayloadNullish(summary, playerName, boardSlug) ==
  LET rounds == [i \in 1..Len(summary.rounds) |-> PayloadRound(summary.rounds[i])]
  IN [player_name |-> playerName,
      board_slug |-> boardSlug,
      total_score |-> Coalesce(summary.total_score,
                               Num(ReduceSum(rounds, "score"))),
      total_distance_m |-> Coalesce(summary.total_distance_m,
                                    Num(ReduceSum(rounds, "distance_m"))),
      game_id |-> Or(summary.dailyQuizId,
                     Or(summary.quizId, Or(summary.token, Null))),
      rounds |-> rounds]

\* summary.rounds is an array in every summary the normalizers store, so
\* roundsSource is summary.rounds.
buildImportPayload(summary, playerName, boardSlug) ==
  LET rounds == [i \in 1..Len(summary.rounds) |-> PayloadRound(summary.rounds[i])]
      totalScore == IF IsNumber(summary.total_score) THEN summary.total_score
                    ELSE Num(ReduceSum(rounds, "score"))
      totalDistance == IF IsNumber(summary.total_distance_m)
                       THEN summary.total_distance_m
                       ELSE Num(ReduceSum(rounds, "distance_m"))
      gameId == Or(summary.dailyQuizId, Or(summary.quizId, Or(summary.token, Null)))
  IN [player_name |-> playerName,
      board_slug |-> boardSlug,
      total_score |-> totalScore,
      total_distance_m |-> totalDistance,
      game_id |-> gameId,
      rounds |-> rounds]

\* ------------------------------------------------------------------ state
VARIABLES
  fnIn,           \* the argument a normalizer / the payload builder is called with
  fnOut,          \* what it returned
  fnPc,           \* "call" before the call, "done" after it
  dom,            \* the __NEXT_DATA__ element of the GeoGuessr page
  phase,          \* GeoGuessr page: "loading", "observing", or "idle" (no observer)
  lastSignature,  \* the closure variable of setupObserver
  storage,        \* the geoguessrLastGame slot of chrome.storage.local
  upd,            \* what the last run of update did
  pathname,       \* window.location.pathname of the GeoLead page
  navbar,         \* the a[href="/me"] link of the GeoLead page
  inflight,       \* fetch requests sent and not yet answered
  alertMsg,       \* the last alert shown on the GeoLead page
  lastImport      \* what the last click read from the slot and built from it

fnVars == <<fnIn, fnOut, fnPc>>
sysVars == <<dom, phase, lastSignature, storage, upd, pathname, navbar,
             inflight, alertMsg, lastImport>>
vars == <<fnIn, fnOut, fnPc, dom, phase, lastSignature, storage, upd,
          pathname, navbar, inflight, alertMsg, lastImport>>

\* ------------------------------------------------ raw states that are read
\* The user object extractFromNextData builds.
NoUser == [id |-> Null, nick |-> Null, email |-> Null, countryCode |-> Null]

MkGuess(dm, d, rs, s) ==
  [present |-> TRUE, roundNumber |-> Undefined,
   distanceInMeters |-> dm, distance |-> d,
   roundScoreInPoints |-> rs, scoreInPoints |-> s,
   score |-> Undefined, lat |-> Num(1), lng |-> Num(2)]

MkRnd(guesses, guess, dm, rs) ==
  [isNull |-> FALSE, roundNumber |-> Undefined, guesses |-> guesses,
   guess |-> guess, distanceInMeters |-> dm, roundScoreInPoints |-> rs,
   lat |-> Num(3), lng |-> Num(4),
   hasPano |-> FALSE, panoLat |-> Undefined, panoLng |-> Undefined]

\* a null entry of a rounds array
NullRnd ==
  [isNull |-> TRUE, roundNumber |-> Undefined, guesses |-> <<>>,
   guess |-> NoGuess, distanceInMeters |-> Undefined,
   roundScoreInPoints |-> Undefined, lat |-> Undefined, lng |-> Undefined,
   hasPano |-> FALSE, panoLat |-> Undefined, panoLng |-> Undefined]

\* a round that was played, a round played under the alias field names with
\* score 0, a placeholder round, a round with round-level values only, a
\* round whose values are strings, a null entry
PlayedRnd == MkRnd(<<MkGuess(Num(1000), Undefined, Num(5), Undefined)>>,
                   NoGuess, Undefined, Undefined)
AliasRnd == MkRnd(<<>>, MkGuess(Undefined, Num(3000), Undefined, Num(0)),
                  Undefined, Undefined)
PlaceholderRnd == MkRnd(<<>>, NoGuess, Undefined, Undefined)
RoundLevelRnd == MkRnd(<<NoGuess>>, NoGuess, Num(2000), Num(4))
StringRnd == MkRnd(<<MkGuess(Str(2), Undefined, Str(2), Undefined)>>,
                   NoGuess, Undefined, Undefined)

ClassicRnds ==
  {PlayedRnd, AliasRnd, PlaceholderRnd, RoundLevelRnd, StringRnd, NullRnd}

MkPlayer(ts, amt, sc) ==
  [present |-> TRUE, totalScore |-> ts, amount |-> amt, score |-> sc]

Players ==
  {MkPlayer(Obj(1), Num(18432), Undefined),
   MkPlayer(Num(7), Undefined, Undefined),
   MkPlayer(Undefined, Undefined, Num(9)),
   MkPlayer(Obj(1), Str(2), Num(9)),
   MkPlayer(Obj(1), Undefined, Num(9)),
   MkPlayer(Null, Undefined, Str(2)),
   MkPlayer(Undefined, Undefined, Undefined)}

\* game.players / game.player
PlayerConfigs ==
  {[hasPlayers |-> TRUE, players |-> <<p>>, player |-> NoPlayer] : p \in Players}
  \cup {[hasPlayers |-> TRUE, players |-> <<>>,
         player |-> MkPlayer(Num(7), Undefined, Undefined)]}
  \cup {[hasPlayers |-> FALSE, players |-> <<>>, player |-> p] :
          p \in {NoPlayer, MkPlayer(Num(7), Undefined, Undefined)}}

TheMap ==
  [coverUrl |-> Undefined, thumbnailUrl |-> Str(3), imageUrl |-> Str(4),
   id |-> Str(5), name |-> Str(6), slug |-> Undefined]

MkClassic(token, crn, round, rounds, pc) ==
  [present |-> TRUE, token |-> token, currentRoundNumber |-> crn,
   round |-> round, rounds |-> rounds, map |-> TheMap,
   hasPlayers |-> pc.hasPlayers, players |-> pc.players, player |-> pc.player]

ClassicGames ==
  {MkClassic(token, crn, round, rounds, pc) :
     token \in {Str(7)},
     crn \in {Undefined} \cup {Num(k) : k \in 0..MaxRounds},
     round \in {Undefined, Num(1)},
     rounds \in SeqsUpTo(ClassicRnds, MaxRounds),
     pc \in PlayerConfigs}

\* the guess of daily-quiz round k: every value names its round
MkQuizGuess(k) ==
  [present |-> TRUE, roundNumber |-> Num(k),
   distanceInMeters |-> Undefined, distance |-> Num(1000 * k),
   roundScoreInPoints |-> Undefined, scoreInPoints |-> Undefined,
   score |-> Num(10 + k), lat |-> Num(20 + k), lng |-> Num(40 + k)]

\* a guess of round 1 whose score and distance are strings
StringQuizGuess ==
  [MkQuizGuess(1) EXCEPT !.distance = Str(2), !.score = Str(2)]

\* a guess without roundNumber
UnnumberedQuizGuess == [MkQuizGuess(1) EXCEPT !.roundNumber = Undefined]

QuizGuesses ==
  {MkQuizGuess(k) : k \in 1..MaxRounds}
  \cup {StringQuizGuess, UnnumberedQuizGuess, NoGuess}

\* daily-quiz round k, with its panorama
MkQuizRnd(rn, k) ==
  [NullRnd EXCEPT !.isNull = FALSE, !.roundNumber = rn, !.hasPano = TRUE,
                  !.panoLat = Num(60 + k), !.panoLng = Num(80 + k)]

QuizRnds ==
  {MkQuizRnd(Num(k), k) : k \in 1..MaxRounds}
  \cup {MkQuizRnd(Undefined, 0),
        [MkQuizRnd(Num(1), 1) EXCEPT !.hasPano = FALSE],
        NullRnd}

MkQuiz(quizId, cur, total, guesses, rounds) ==
  [present |-> TRUE, quizId |-> quizId, currentRound |-> cur,
   totalScore |-> total, maxScore |-> Undefined, totalRounds |-> Undefined,
   guesses |-> guesses, rounds |-> rounds]

QuizGames ==
  {MkQuiz(Str(8), Num(1), total, guesses, rounds) :
     total \in {Undefined, Num(33)},
     guesses \in SeqsUpTo(QuizGuesses, MaxGuesses),
     rounds \in SeqsUpTo(QuizRnds, MaxRounds)}

\* summaries handed to the payload builder
MkSummaryRound(score, dist) ==
  [round |-> Num(1), distance_m |-> dist, distance_km |-> DistanceKm(dist),
   score |-> score,
   correct |-> [lat |-> Num(3), lng |-> Undefined],
   guess |-> [present |-> TRUE, lat |-> Num(1), lng |-> Str(2)]]

SummaryRounds ==
  {MkSummaryRound(score, dist) :
     score \in {Null, Num(5), Str(2)},
     dist \in {Null, Num(1200), Num(3400)}}

MkSummary(total, totalDist, rounds) ==
  [source |-> "geoguessr", mode |-> "classic", token |-> Str(7),
   dailyQuizId |-> Undefined, quizId |-> Undefined, user |-> NoUser,
   map |-> [id |-> Null, name |-> Null, slug |-> Null, image |-> Null],
   total_score |-> total, total_distance_m |-> totalDist,
   max_score |-> Undefined, total_rounds |-> Undefined, rounds |-> rounds]

Summaries ==
  {MkSummary(total, totalDist, rounds) :
     total \in {Undefined, Null, Num(18432), Str(2)},
     totalDist \in {Undefined, Num(7000)},
     rounds \in SeqsUpTo(SummaryRounds, MaxPayloadRounds)}

ThePlayerName == Str(9)
TheBoardSlug == Str(10)

\* ------------------------------------------------- the GeoGuessr page
NoClassic ==
  [present |-> FALSE, token |-> Undefined, currentRoundNumber |-> Undefined,
   round |-> Undefined, rounds |-> <<>>, map |-> TheMap,
   hasPlayers |-> FALSE, players |-> <<>>, player |-> NoPlayer]

NoQuiz ==
  [present |-> FALSE, quizId |-> Undefined, currentRound |-> Undefined,
   totalScore |-> Undefined, maxScore |-> Undefined, totalRounds |-> Undefined,
   guesses |-> <<>>, rounds |-> <<>>]

NoUserRaw ==
  [userId |-> Undefined, id |-> Undefined, nick |-> Undefined,
   countryCode |-> Undefined]

\* the parsed document: props.pageProps.{quizGame, game, data.game,
\* dailyQuizId} and props.accountProps.account.{user, email}
MkData(quizGame, game, dataGame, dailyQuizId, userRaw) ==
  [quizGame |-> quizGame, game |-> game, dataGame |-> dataGame,
   dailyQuizId |-> dailyQuizId, userRaw |-> userRaw, email |-> Undefined]

EmptyData == MkData(NoQuiz, NoClassic, NoClassic, Undefined, NoUserRaw)

\* The element: missing, holding text that is not JSON, holding JSON of a
\* falsy value (null, 0, false, ""), holding no text, or holding a document.
MkDom(kind, data) == [kind |-> kind, data |-> data]
AbsentDom == MkDom("absent", EmptyData)
MalformedDom == MkDom("malformed", EmptyData)
FalsyDom == MkDom("falsy", EmptyData)
EmptyTextDom == MkDom("empty", EmptyData)

Ann == [NoUserRaw EXCEPT !.id = Str(14), !.nick = Str(9)]

ThePlayers ==
  [hasPlayers |-> TRUE,
   players |-> <<MkPlayer(Obj(1), Num(18432), Undefined)>>,
   player |-> NoPlayer]
OtherPlayers ==
  [hasPlayers |-> FALSE, players |-> <<>>,
   player |-> MkPlayer(Num(7), Undefined, Undefined)]

\* classic game, round 1 of 2 played
ClassicA == MkClassic(Str(7), Num(1), Undefined,
                      <<PlayedRnd, PlaceholderRnd>>, ThePlayers)
\* the same game and round, another score: the same signature
ClassicA2 == MkClassic(Str(7), Num(1), Undefined,
                       <<AliasRnd, PlaceholderRnd>>, OtherPlayers)
\* the same game, both rounds played
ClassicB == MkClassic(Str(7), Num(2), Undefined,
                      <<PlayedRnd, AliasRnd>>, ThePlayers)
\* the same game and round as ClassicB with a null entry in rounds
ClassicBroken == MkClassic(Str(7), Num(2), Undefined,
                           <<PlayedRnd, NullRnd>>, ThePlayers)
\* another game, under pageProps.data.game, without currentRoundNumber
ClassicNested == MkClassic(Str(12), Undefined, Num(1),
                           <<StringRnd>>, OtherPlayers)

QuizA == MkQuiz(Str(8), Num(1), Undefined, <<MkQuizGuess(1)>>,
                <<MkQuizRnd(Num(1), 1), MkQuizRnd(Num(2), 2)>>)
QuizB == MkQuiz(Str(8), Num(2), Num(33), <<MkQuizGuess(2), MkQuizGuess(1)>>,
                <<MkQuizRnd(Num(2), 2), MkQuizRnd(Num(1), 1)>>)

Doms ==
  {AbsentDom, MalformedDom, FalsyDom, EmptyTextDom,
   MkDom("json", EmptyData),
   MkDom("json", MkData(NoQuiz, ClassicA, NoClassic, Undefined, Ann)),
   MkDom("json", MkData(NoQuiz, ClassicA2, NoClassic, Undefined, Ann)),
   MkDom("json", MkData(NoQuiz, ClassicB, NoClassic, Undefined, NoUserRaw)),
   MkDom("json", MkData(NoQuiz, ClassicBroken, NoClassic, Undefined, Ann)),
   MkDom("json", MkData(NoQuiz, NoClassic, ClassicNested, Undefined, Ann)),
   MkDom("json", MkData(QuizA, NoClassic, NoClassic, Str(11), Ann)),
   MkDom("json", MkData(QuizB, ClassicA, NoClassic, Undefined, Ann))}

\* Mutant of getNextData: JSON.parse is not wrapped in try/catch.
getNextDataUncaught(d) ==
  CASE d.kind = "absent" -> [null |-> TRUE, falsy |-> TRUE, threw |-> FALSE, data |-> EmptyData]
    [] d.kind = "malformed" -> [null |-> TRUE, falsy |-> TRUE, threw |-> TRUE, data |-> EmptyData]
    [] d.kind = "falsy" -> [null |-> FALSE, falsy |-> TRUE, threw |-> FALSE, data |-> EmptyData]
    [] d.kind = "empty" -> [null |-> FALSE, falsy |-> FALSE, threw |-> FALSE, data |-> EmptyData]
    [] OTHER -> [null |-> FALSE, falsy |-> FALSE, threw |-> FALSE, data |-> d.data]

\* getNextData: null when the element is missing, when JSON.parse throws
\* (caught), and whatever JSON.parse returns otherwise; empty text is
\* parsed as "{}".
getNextData(d) ==
  CASE d.kind = "absent" -> [null |-> TRUE, falsy |-> TRUE, threw |-> FALSE, data |-> EmptyData]
    [] d.kind = "malformed" -> [null |-> TRUE, falsy |-> TRUE, threw |-> FALSE, data |-> EmptyData]
    [] d.kind = "falsy" -> [null |-> FALSE, falsy |-> TRUE, threw |-> FALSE, data |-> EmptyData]
    [] d.kind = "empty" -> [null |-> FALSE, falsy |-> FALSE, threw |-> FALSE, data |-> EmptyData]
    [] OTHER -> [null |-> FALSE, falsy |-> FALSE, threw |-> FALSE, data |-> d.data]

\* pageProps.game || (pageProps.data && pageProps.data.game)
ClassicGameOf(data) == IF data.game.present THEN data.game ELSE data.dataGame

\* extractFromNextData: the game found and the user, or null
extractFromNextData(d) ==
  LET got == getNextData(d)
      data == got.data
      user == [id |-> Or(data.userRaw.userId, Or(data.userRaw.id, Null)),
               nick |-> Or(data.userRaw.nick, Null),
               email |-> Or(data.email, Null),
               countryCode |-> Or(data.userRaw.countryCode, Null)]
  IN IF got.threw THEN [threw |-> TRUE, none |-> TRUE, type |-> "none"]
     ELSE IF got.falsy THEN [threw |-> FALSE, none |-> TRUE, type |-> "none"]
     ELSE IF data.quizGame.present
     THEN [threw |-> FALSE, none |-> FALSE, type |-> "daily-quiz",
           dailyQuizId |-> Or(data.dailyQuizId, Null),
           game |-> data.quizGame, user |-> user]
     ELSE IF ClassicGameOf(data).present
     THEN [threw |-> FALSE, none |-> FALSE, type |-> "classic",
           dailyQuizId |-> Undefined,
           game |-> ClassicGameOf(data), user |-> user]
     ELSE [threw |-> FALSE, none |-> TRUE, type |-> "none"]

\* buildSummaryFromNextData after extractFromNextData returned
SummaryOfExtracted(extracted) ==
  IF extracted.threw THEN Threw
  ELSE IF extracted.none THEN ReturnedNull
  ELSE IF extracted.type = "daily-quiz"
  THEN buildDailyQuizSummary(extracted.game, extracted.user,
                             extracted.dailyQuizId)
  ELSE buildClassicSummary(extracted.game, extracted.user)

buildSummaryFromNextData(d) == SummaryOfExtracted(extractFromNextData(d))

\* the slot when nothing is stored in it
NoValue == [set |-> FALSE]
Stored(summary) == [set |-> TRUE, value |-> summary]

\* storeSummary: writes the summary, if there is one, into the slot;
\* setOk is whether chrome.storage.local.set succeeds (a failure is logged).
StoreBuilt(built, slot, setOk) ==
  IF built.threw THEN [threw |-> TRUE, set |-> FALSE, storage |-> slot]
  ELSE IF built.none THEN [threw |-> FALSE, set |-> FALSE, storage |-> slot]
  ELSE [threw |-> FALSE, set |-> TRUE,
        storage |-> IF setOk THEN Stored(built.summary) ELSE slot]

storeSummary(d, slot, setOk) ==
  StoreBuilt(buildSummaryFromNextData(d), slot, setOk)

\* String(v) for a truthy v, "" otherwise: the string of number k has
\* identifier 100 + k, of an object 99, a string is itself.
SigPart(v) ==
  IF ~Truthy(v) THEN Str(0)
  ELSE IF v.t = "number" THEN Str(100 + v.n)
  ELSE IF v.t = "string" THEN v
  ELSE Str(99)

\* the four parts that update joins with "|"
Signature(data) ==
  LET quizGame == data.quizGame
      classicGame == ClassicGameOf(data)
  IN <<SigPart(quizGame.quizId), SigPart(quizGame.currentRound),
       SigPart(classicGame.token), SigPart(classicGame.currentRoundNumber)>>

\* lastSignature = null
NoSignature == <<>>

\* what update did: whether it got data, the signature it computed, whether
\* it went on to storeSummary, whether that called storage.set, whether an
\* exception left update
NoUpdate ==
  [parsed |-> FALSE, sig |-> NoSignature, stored |-> FALSE, set |-> FALSE,
   threw |-> FALSE]

\* update once the signature has changed: lastSignature = sig, then
\* storeSummary, whose outcome is st
UpdateStored(sig, st) ==
  [lastSignature |-> sig, storage |-> st.storage,
   upd |-> [parsed |-> TRUE, sig |-> sig, stored |-> TRUE,
            set |-> st.set, threw |-> st.threw]]

\* Mutant of UpdateGot: the signature is not compared with the last one.
UpdateGotUngated(got, d, last, slot, setOk) ==
  IF got.threw
  THEN [lastSignature |-> last, storage |-> slot,
        upd |-> [NoUpdate EXCEPT !.threw = TRUE]]
  ELSE IF got.falsy
  THEN [lastSignature |-> last, storage |-> slot, upd |-> NoUpdate]
  ELSE UpdateStored(Signature(got.data), storeSummary(d, slot, setOk))

\* update after getNextData returned got
UpdateGot(got, d, last, slot, setOk) ==
  IF got.threw
  THEN [lastSignature |-> last, storage |-> slot,
        upd |-> [NoUpdate EXCEPT !.threw = TRUE]]
  ELSE IF got.falsy
  THEN [lastSignature |-> last, storage |-> slot, upd |-> NoUpdate]
  ELSE IF Signature(got.data) = last
  THEN [lastSignature |-> last, storage |-> slot,
        upd |-> [NoUpdate EXCEPT !.parsed = TRUE, !.sig = last]]
  ELSE UpdateStored(Signature(got.data), storeSummary(d, slot, setOk))

\* update: the new lastSignature and slot, and what was done
update(d, last, slot, setOk) ==
  UpdateGot(getNextData(d), d, last, slot, setOk)

\* --------------------------------------------------- the GeoLead page
\* a JavaScript string with its text
JString(text) == [t |-> "string", n |-> IF text = "" THEN 0 ELSE 1, s |-> text]
JNull == [t |-> "null", n |-> 0, s |-> ""]

\* decodeURIComponent on the path segments of the model; it throws on "%E0"
DecodeThrows(seg) == seg = "%E0"
decodeURIComponent(seg) ==
  CASE seg = "a%20b" -> "a b"
    [] seg = "%25E0" -> "%E0"
    [] OTHER -> seg

encodeURIComponent(text) ==
  CASE text = "a b" -> "a%20b"
    [] text = "%E0" -> "%25E0"
    [] OTHER -> text

\* String.prototype.trim on the link texts of the model
Trim(text) ==
  CASE text = " Ann" -> "Ann"
    [] text = "My stats " -> "My stats"
    [] text = " " -> ""
    [] OTHER -> text

\* pathname as its segments: /board/{slug}/... is <<"board", slug, ...>>
Paths == {<<"board", "a%20b">>, <<"board", "%E0">>, <<"me">>}

\* the a[href="/me"] link: whether it exists, and its text split on "·"
NoLink == [link |-> FALSE, parts |-> <<>>]
Navbars ==
  {NoLink,
   [link |-> TRUE, parts |-> <<"My stats">>],
   [link |-> TRUE, parts |-> <<"My stats ", " ">>],
   [link |-> TRUE, parts |-> <<"My stats ", " Ann">>]}

\* getBoardSlug: the decoded segment after /board/, the raw one when it
\* cannot be decoded, null when the path is no board path
getBoardSlug(path) ==
  IF Len(path) >= 2 /\ path[1] = "board" /\ path[2] # ""
  THEN IF DecodeThrows(path[2]) THEN JString(path[2])
       ELSE JString(decodeURIComponent(path[2]))
  ELSE JNull

\* getPlayerNameFromNavbar: the trimmed text after the first "·", or null
getPlayerNameFromNavbar(nav) ==
  IF ~nav.link THEN JNull
  ELSE IF Len(nav.parts) < 2 THEN JNull
  ELSE JString(Trim(nav.parts[2]))

\* sendImport up to the fetch: the alert it shows ("" for none) and the
\* request it sends, if any
\* Mutant of SendWith: the player name is not checked.
SendWithAnyName(summary, boardSlug, playerName) ==
  IF ~Truthy(boardSlug)
  THEN [alert |-> "NoBoard", sent |-> <<>>]
  ELSE [alert |-> "",
        sent |-> <<buildImportPayload(summary, playerName, boardSlug)>>]

\* sendImport with the board slug and the player name it resolved
SendWith(summary, boardSlug, playerName) ==
  IF ~Truthy(boardSlug)
  THEN [alert |-> "NoBoard", sent |-> <<>>]
  ELSE IF ~Truthy(playerName)
  THEN [alert |-> "NoName", sent |-> <<>>]
  ELSE [alert |-> "",
        sent |-> <<buildImportPayload(summary, playerName, boardSlug)>>]

sendImport(summary, path, nav) ==
  SendWith(summary, getBoardSlug(path), getPlayerNameFromNavbar(nav))

\* importFromStorage: reads the slot and hands the summary to sendImport;
\* storage is the slot after the call
\* Mutant of importFromStorage: the slot is cleared once it has been read.
importFromStorageConsuming(slot, path, nav) ==
  IF ~slot.set
  THEN [alert |-> "NoGame", sent |-> <<>>, read |-> slot, storage |-> slot]
  ELSE [alert |-> sendImport(slot.value, path, nav).alert,
        sent |-> sendImport(slot.value, path, nav).sent,
        read |-> slot, storage |-> NoValue]

\* importFromStorage once sendImport returned r
ImportSent(r, slot) ==
  [alert |-> r.alert, sent |-> r.sent, read |-> slot, storage |-> slot]

importFromStorage(slot, path, nav) ==
  IF ~slot.set
  THEN [alert |-> "NoGame", sent |-> <<>>, read |-> slot, storage |-> slot]
  ELSE ImportSent(sendImport(slot.value, path, nav), slot)

\* sendImport after the fetch: the alert, and whether the page moves on to
\* /board/{slug}/today
afterFetch(outcome) ==
  CASE outcome = "ok" -> [alert |-> "Imported", navigate |-> TRUE]
    [] outcome = "status" -> [alert |-> "BackendError", navigate |-> FALSE]
    [] OTHER -> [alert |-> "Unreachable", navigate |-> FALSE]

\* what the last click on this page did: the slot as it read it, the
\* request it sent, and the alert that was showing when it happened
NoImport == [clicked |-> FALSE, read |-> NoValue, sent |-> <<>>, after |-> ""]

\* ---------------------------------------------------------------- actions
Init ==
  /\ fnIn = [fn |-> "none"]
  /\ fnOut = ReturnedNull
  /\ fnPc = "off"
  /\ dom \in Doms
  /\ phase = "loading"
  /\ lastSignature = NoSignature
  /\ storage = NoValue
  /\ upd = NoUpdate
  /\ pathname \in Paths
  /\ navbar \in Navbars
  /\ inflight = 0
  /\ alertMsg = ""
  /\ lastImport = NoImport

\* a write of the slot makes the last import's reading a thing of the past
ImportAfter(u) == IF u.set THEN NoImport ELSE lastImport

\* the page after update ran on element content d with outcome r
Updated(d, r) ==
  /\ dom' = d
  /\ lastSignature' = r.lastSignature
  /\ storage' = r.storage
  /\ upd' = r.upd
  /\ lastImport' = ImportAfter(r.upd)

\* setupObserver: without the element nothing is observed; with it update
\* runs once and the observer is set
SetupObserver ==
  /\ phase = "loading"
  /\ IF dom.kind = "absent"
     THEN /\ phase' = "idle"
          /\ UNCHANGED <<lastSignature, storage, upd, lastImport>>
          /\ UNCHANGED dom
     ELSE \E setOk \in BOOLEAN :
            /\ phase' = "observing"
            /\ Updated(dom, update(dom, lastSignature, storage, setOk))
  /\ UNCHANGED <<pathname, navbar, inflight, alertMsg, fnVars>>

\* the element's content changes and the MutationObserver callback runs
Mutate ==
  /\ phase = "observing"
  /\ \E d \in Doms, setOk \in BOOLEAN :
       Updated(d, update(d, lastSignature, storage, setOk))
  /\ UNCHANGED <<phase, pathname, navbar, inflight, alertMsg, fnVars>>

\* the GeoGuessr page is loaded anew: the content script starts over
Reload ==
  /\ phase \in {"observing", "idle"}
  /\ dom' \in Doms
  /\ phase' = "loading"
  /\ lastSignature' = NoSignature
  /\ upd' = NoUpdate
  /\ UNCHANGED <<storage, pathname, navbar, inflight, alertMsg, lastImport,
                 fnVars>>

\* a click on the Import button
Clicked(r) ==
  /\ inflight + Len(r.sent) <= MaxRequests
  /\ storage' = r.storage
  /\ inflight' = inflight + Len(r.sent)
  /\ alertMsg' = IF r.alert = "" THEN alertMsg ELSE r.alert
  /\ lastImport' = [clicked |-> TRUE, read |-> r.read, sent |-> r.sent,
                    after |-> alertMsg]

Click ==
  /\ Clicked(importFromStorage(storage, pathname, navbar))
  /\ UNCHANGED <<dom, phase, lastSignature, upd, pathname, navbar, fnVars>>

\* a fetch is answered, with a 2xx status or another one, or fails
Respond ==
  /\ inflight > 0
  /\ \E outcome \in {"ok", "status", "unreachable"} :
       LET r == afterFetch(outcome)
       IN /\ alertMsg' = r.alert
          /\ IF r.navigate
             THEN /\ pathname' = <<"board",
                                   encodeURIComponent(getBoardSlug(pathname).s),
                                   "today">>
                  /\ inflight' = 0
                  /\ lastImport' = NoImport
             ELSE /\ inflight' = inflight - 1
                  /\ UNCHANGED <<pathname, lastImport>>
  /\ UNCHANGED <<dom, phase, lastSignature, storage, upd, navbar, fnVars>>

\* the user opens another GeoLead page
Navigate ==
  /\ pathname' \in Paths
  /\ navbar' \in Navbars
  /\ inflight' = 0
  /\ alertMsg' = ""
  /\ lastImport' = NoImport
  /\ UNCHANGED <<dom, phase, lastSignature, storage, upd, fnVars>>

Next == SetupObserver \/ Mutate \/ Reload \/ Click \/ Respond \/ Navigate

Spec == Init /\ [][Next]_vars

\* ------------------------------------- the functions, called on an input
FnInputs ==
  {[fn |-> "buildClassicSummary", arg |-> g] : g \in ClassicGames}
  \cup {[fn |-> "buildDailyQuizSummary", arg |-> q] : q \in QuizGames}
  \cup {[fn |-> "buildImportPayload", arg |-> s] : s \in Summaries}

\* the pages are left alone while a function is checked on its own
PagesAtRest ==
  /\ dom = AbsentDom
  /\ phase = "idle"
  /\ lastSignature = NoSignature
  /\ storage = NoValue
  /\ upd = NoUpdate
  /\ pathname = <<"me">>
  /\ navbar = NoLink
  /\ inflight = 0
  /\ alertMsg = ""
  /\ lastImport = NoImport

FnInit ==
  /\ fnIn \in FnInputs
  /\ fnOut = ReturnedNull
  /\ fnPc = "call"
  /\ PagesAtRest

CallClassic ==
  /\ fnPc = "call"
  /\ fnIn.fn = "buildClassicSummary"
  /\ fnOut' = buildClassicSummary(fnIn.arg, NoUser)
  /\ fnPc' = "done"
  /\ UNCHANGED <<fnIn, sysVars>>

CallDailyQuiz ==
  /\ fnPc = "call"
  /\ fnIn.fn = "buildDailyQuizSummary"
  /\ fnOut' = buildDailyQuizSummary(fnIn.arg, NoUser, Str(11))
  /\ fnPc' = "done"
  /\ UNCHANGED <<fnIn, sysVars>>

CallPayload ==
  /\ fnPc = "call"
  /\ fnIn.fn = "buildImportPayload"
  /\ fnOut' = [threw |-> FALSE, none |-> FALSE,
               payload |-> buildImportPayload(fnIn.arg, ThePlayerName,
                                              TheBoardSlug)]
  /\ fnPc' = "done"
  /\ UNCHANGED <<fnIn, sysVars>>

FnNext == CallClassic \/ CallDailyQuiz \/ CallPayload

FnSpec == FnInit /\ [][FnNext]_vars

ClassicDone ==
  fnPc = "done" /\ fnIn.fn = "buildClassicSummary" /\ ~fnOut.threw
QuizDone ==
  fnPc = "done" /\ fnIn.fn = "buildDailyQuizSummary" /\ ~fnOut.threw
PayloadDone ==
  fnPc = "done" /\ fnIn.fn = "buildImportPayload"

\* ------------------------------------------------------------------ claims
\* C2: a classic game whose currentRoundNumber is N <= L (L the length of
\* its rounds array) gets a summary of exactly N rounds, numbered 1..N.
ClassicRoundsAreTheNPlayed ==
  (ClassicDone /\ IsNumber(fnIn.arg.currentRoundNumber)
     /\ fnIn.arg.currentRoundNumber.n <= Len(fnIn.arg.rounds))
  => /\ Len(fnOut.summary.rounds) = fnIn.arg.currentRoundNumber.n
     /\ \A i \in 1..Len(fnOut.summary.rounds) :
          fnOut.summary.rounds[i].round = Num(i)

\* The same for N >= 1: what the code does keep of C2.
ClassicRoundsAreTheNPlayedFromOne ==
  (ClassicDone /\ IsNumber(fnIn.arg.currentRoundNumber)
     /\ fnIn.arg.currentRoundNumber.n >= 1
     /\ fnIn.arg.currentRoundNumber.n <= Len(fnIn.arg.rounds))
  => /\ Len(fnOut.summary.rounds) = fnIn.arg.currentRoundNumber.n
     /\ \A i \in 1..Len(fnOut.summary.rounds) :
          fnOut.summary.rounds[i].round = Num(i)

\* the round number the normalizer gives raw round i of a daily quiz
QuizRoundNumber(i) == Coalesce(fnIn.arg.rounds[i].roundNumber, Num(i))

\* the entries of the guesses list that carry round number rn
GuessEntriesOf(rn) ==
  {g \in Range(fnIn.arg.guesses) : g.present /\ g.roundNumber = rn}

\* C3: a daily-quiz round whose round number has no entry in the guesses
\* list gets null score, null distance and null guess, and still its own
\* panorama coordinates as target; a round with an entry gets the values of
\* an entry of that round number, wherever the entry sits in the list.
QuizRoundsMatchGuessesByNumber ==
  QuizDone =>
    \A i \in 1..Len(fnIn.arg.rounds) :
      LET r == fnIn.arg.rounds[i]
          out == fnOut.summary.rounds[i]
          entries == GuessEntriesOf(QuizRoundNumber(i))
      IN /\ out.correct.lat = (IF r.hasPano THEN r.panoLat ELSE Undefined)
         /\ out.correct.lng = (IF r.hasPano THEN r.panoLng ELSE Undefined)
         /\ entries = {} =>
              /\ out.score = Null
              /\ out.distance_m = Null
              /\ ~out.guess.present
         /\ entries # {} =>
              \E g \in entries :
                /\ out.guess = [present |-> TRUE, lat |-> g.lat, lng |-> g.lng]
                /\ out.score = (IF IsNumber(g.score) THEN g.score ELSE Null)
                /\ out.distance_m =
                     (IF IsNumber(g.distance) THEN g.distance ELSE Null)

\* C3 witness: round 2 listed first has no guess, round 1 listed second has
\* one, and the only guess of the list sits at position 1.
QuizUnguessedAndGuessedRound ==
  /\ QuizDone
  /\ Len(fnIn.arg.rounds) = 2
  /\ fnIn.arg.rounds[1].roundNumber = Num(2)
  /\ fnIn.arg.rounds[1].hasPano
  /\ fnIn.arg.rounds[2].roundNumber = Num(1)
  /\ fnIn.arg.guesses = <<MkQuizGuess(1)>>
  /\ fnOut.summary.rounds[1].score = Null
  /\ fnOut.summary.rounds[1].correct.lat = Num(62)
  /\ fnOut.summary.rounds[2].score = Num(11)

\* C4: the daily-quiz summary has as many rounds as the game has, in
\* ascending order of round number whatever the order of the raw array.
QuizRoundsAscending ==
  QuizDone =>
    /\ Len(fnOut.summary.rounds) = Len(fnIn.arg.rounds)
    /\ \A i, j \in 1..Len(fnOut.summary.rounds) :
         i < j => fnOut.summary.rounds[i].round.n <= fnOut.summary.rounds[j].round.n

\* What the code does keep of C4: one record per raw round, in raw order.
QuizRoundsInRawOrder ==
  QuizDone =>
    /\ Len(fnOut.summary.rounds) = Len(fnIn.arg.rounds)
    /\ \A i \in 1..Len(fnOut.summary.rounds) :
         fnOut.summary.rounds[i].round = QuizRoundNumber(i)

\* the sum of a field over the rounds of a summary, a value that is not a
\* number counting as zero
RECURSIVE SumOfNumbers(_, _)
SumOfNumbers(rounds, field) ==
  IF rounds = <<>> THEN 0
  ELSE (IF IsNumber(Head(rounds)[field]) THEN Head(rounds)[field].n ELSE 0)
       + SumOfNumbers(Tail(rounds), field)

\* C6: the payload's total score (total distance) is the summary's when that
\* is a number, and otherwise the sum of the per-round scores (distances),
\* an absent per-round value counting as zero.
PayloadTotals ==
  PayloadDone =>
    /\ fnOut.payload.total_score =
         (IF IsNumber(fnIn.arg.total_score) THEN fnIn.arg.total_score
          ELSE Num(SumOfNumbers(fnIn.arg.rounds, "score")))
    /\ fnOut.payload.total_distance_m =
         (IF IsNumber(fnIn.arg.total_distance_m) THEN fnIn.arg.total_distance_m
          ELSE Num(SumOfNumbers(fnIn.arg.rounds, "distance_m")))

\* C6 witness: no total_distance_m, distances [1200, null, 3400] give 4600.
PayloadTotalDistance4600 ==
  /\ PayloadDone
  /\ fnIn.arg.total_distance_m = Undefined
  /\ Len(fnIn.arg.rounds) = 3
  /\ fnIn.arg.rounds[1].distance_m = Num(1200)
  /\ fnIn.arg.rounds[2].distance_m = Null
  /\ fnIn.arg.rounds[3].distance_m = Num(3400)
  /\ fnOut.payload.total_distance_m = Num(4600)

\* the value the classic normalizer reads for a field of raw round i: the
\* first candidate that is present
ClassicSourceValue(rnd, guessFields, roundField) ==
  LET guess == IF Len(rnd.guesses) > 0 /\ rnd.guesses[1].present
               THEN rnd.guesses[1] ELSE rnd.guess
      cands == <<OptGuess(guess, guessFields[1]), OptGuess(guess, guessFields[2]),
                 rnd[roundField]>>
      there == {k \in 1..3 : ~IsNullish(cands[k])}
  IN IF there = {} THEN Undefined
     ELSE cands[CHOOSE k \in there : \A m \in there : k <= m]

\* Per-round values of the classic summary: null unless a number.
ClassicRoundValuesNullUnlessNumber ==
  ClassicDone =>
    \A i \in 1..Len(fnOut.summary.rounds) :
      LET rnd == fnIn.arg.rounds[i]
          score == ClassicSourceValue(
                     rnd, <<"roundScoreInPoints", "scoreInPoints">>,
                     "roundScoreInPoints")
          dist == ClassicSourceValue(
                    rnd, <<"distanceInMeters", "distance">>,
                    "distanceInMeters")
      IN /\ ~IsNumber(score) => fnOut.summary.rounds[i].score = Null
         /\ ~IsNumber(dist) => fnOut.summary.rounds[i].distance_m = Null

\* Per-round values of the daily-quiz summary: null unless a number.
QuizRoundValuesNullUnlessNumber ==
  QuizDone =>
    \A i \in 1..Len(fnOut.summary.rounds) :
      LET entries == GuessEntriesOf(QuizRoundNumber(i))
          out == fnOut.summary.rounds[i]
      IN /\ out.score.t \in {"number", "null"}
         /\ out.distance_m.t \in {"number", "null"}
         /\ (\A g \in entries : ~IsNumber(g.score)) => out.score = Null
         /\ (\A g \in entries : ~IsNumber(g.distance)) => out.distance_m = Null

\* Per-round values of the payload: null unless a number.
PayloadRoundValuesNullUnlessNumber ==
  PayloadDone =>
    \A i \in 1..Len(fnOut.payload.rounds) :
      /\ ~IsNumber(fnIn.arg.rounds[i].score) =>
           fnOut.payload.rounds[i].score = Null
      /\ ~IsNumber(fnIn.arg.rounds[i].distance_m) =>
           fnOut.payload.rounds[i].distance_m = Null

\* C9: in every per-round record (classic summary, daily-quiz summary,
\* payload) a score or distance that is absent or not a number in the source
\* is null, never zero.
RoundValuesNullUnlessNumber ==
  /\ ClassicRoundValuesNullUnlessNumber
  /\ QuizRoundValuesNullUnlessNumber
  /\ PayloadRoundValuesNullUnlessNumber

\* the candidates of the first player's total score, in priority order
TotalScoreCandidates(game) ==
  LET players == IF game.hasPlayers THEN game.players
                 ELSE IF game.player.present THEN <<game.player>> ELSE <<>>
      p == IF Len(players) > 0 THEN players[1] ELSE NoPlayer
  IN <<IF p.present /\ p.totalScore.t = "object" THEN p.amount ELSE Undefined,
       p.totalScore, p.score>>

\* C10: total_score of a classic summary is the first candidate, in the
\* order totalScore.amount, totalScore, score, that is present and numeric;
\* it is a number or null.
ClassicTotalScoreFirstNumeric ==
  ClassicDone =>
    LET cands == TotalScoreCandidates(fnIn.arg)
        numeric == {k \in 1..3 : IsNumber(cands[k])}
    IN /\ fnOut.summary.total_score.t \in {"number", "null"}
       /\ fnOut.summary.total_score =
            (IF numeric = {} THEN Null
             ELSE cands[CHOOSE k \in numeric : \A m \in numeric : k <= m])

\* What the code does keep of C10: the first candidate that is not null or
\* undefined, whatever its type.
ClassicTotalScoreFirstPresent ==
  ClassicDone =>
    LET cands == TotalScoreCandidates(fnIn.arg)
        there == {k \in 1..3 : ~IsNullish(cands[k])}
    IN fnOut.summary.total_score =
         (IF there = {} THEN Null
          ELSE cands[CHOOSE k \in there : \A m \in there : k <= m])


\* ------------------------------------------- claims about the two pages
\* A step of the observer callback (Mutate): the GeoGuessr page stays under
\* observation and something of it changes.
MutateStep ==
  /\ phase = "observing"
  /\ phase' = "observing"
  /\ <<dom, lastSignature, storage, upd>>' # <<dom, lastSignature, storage, upd>>

\* update ran: at setup (SetupObserver with the element there) or from the
\* observer
UpdateRan == (phase = "loading" /\ phase' = "observing") \/ MutateStep

\* C1 as stated: of two consecutive mutations whose parsed state carries
\* the same signature, the first runs storeSummary and the second does not;
\* the first observation after setup always runs it.
SameSignatureStoresOnce ==
  [][/\ (MutateStep /\ upd.parsed /\ upd'.parsed /\ upd'.sig = upd.sig)
          => (upd.stored /\ ~upd'.stored)
     /\ (UpdateRan /\ lastSignature = NoSignature /\ upd'.parsed)
          => upd'.stored]_vars

\* C1 as amended: of two consecutive mutations whose parsed state carries
\* the same signature the second is a no-op that writes nothing, so that
\* storeSummary runs at most once for the two; an update runs storeSummary
\* exactly when the signature it computes differs from the recorded one,
\* and so always on the first observation after setup.
SameSignatureIsNoOp ==
  [][/\ (MutateStep /\ upd.parsed /\ upd'.parsed /\ upd'.sig = upd.sig)
          => /\ ~upd'.stored
             /\ storage' = storage
             /\ lastSignature' = lastSignature
     /\ (UpdateRan /\ upd'.parsed)
          => (upd'.stored <=> upd'.sig # lastSignature)
     /\ (UpdateRan /\ lastSignature = NoSignature /\ upd'.parsed)
          => upd'.stored]_vars

\* C1 witness: the element holds a game with the recorded signature that is
\* not the stored one: the mutation that brought it was skipped.
SkippedSameSignature ==
  /\ phase = "observing"
  /\ upd.parsed
  /\ ~upd.stored
  /\ upd.sig = lastSignature
  /\ storage.set
  /\ dom.kind = "json"
  /\ ~buildSummaryFromNextData(dom).none
  /\ buildSummaryFromNextData(dom).summary # storage.value

\* the element is missing, is not JSON, or holds neither a quiz game nor a
\* classic game
NoGameIn(d) ==
  \/ d.kind \in {"absent", "malformed", "falsy", "empty"}
  \/ /\ ~d.data.quizGame.present
     /\ ~d.data.game.present
     /\ ~d.data.dataGame.present

\* C5: an update cycle on an element that is missing, malformed or without
\* a game writes nothing into the slot and raises no error.
NoGameNoWrite ==
  [][(UpdateRan /\ NoGameIn(dom'))
       => /\ storage' = storage
          /\ ~upd'.set
          /\ ~upd'.threw]_vars

\* C5 witness: a summary is stored and the observer has just run on an
\* element whose text is not JSON.
MalformedAfterStore ==
  /\ phase = "observing"
  /\ dom.kind = "malformed"
  /\ ~upd.parsed
  /\ storage.set

\* A step of the GeoLead page (Click, Respond, Navigate): something of that
\* page changes.  A write of the slot by the GeoGuessr page forgets the last
\* import and changes nothing else of the GeoLead page.
ImportStep ==
  \/ <<pathname, navbar, inflight, alertMsg>>' # <<pathname, navbar, inflight, alertMsg>>
  \/ lastImport'.clicked /\ lastImport' # lastImport

\* A click: the step after which the last import is the one just made.
ClickStep ==
  /\ UNCHANGED <<pathname, navbar>>
  /\ inflight' >= inflight
  /\ lastImport'.clicked
  /\ lastImport'.after = alertMsg
  /\ ImportStep

\* the board slug can be resolved from the URL
SlugResolved(path) == Len(path) >= 2 /\ path[1] = "board" /\ path[2] # ""

\* the player name can be resolved from the navbar
NameResolved(nav) ==
  nav.link /\ Len(nav.parts) >= 2 /\ Trim(nav.parts[2]) # ""

\* C7: a click with a stored summary sends a request exactly when board
\* slug and player name are both resolved; otherwise it alerts the user
\* and sends nothing.
MissingContextBlocks ==
  [][(ClickStep /\ storage.set)
       => LET resolved == SlugResolved(pathname) /\ NameResolved(navbar)
          IN /\ resolved => /\ inflight' = inflight + 1
                            /\ Len(lastImport'.sent) = 1
             /\ ~resolved => /\ inflight' = inflight
                             /\ lastImport'.sent = <<>>
                             /\ alertMsg' \in {"NoBoard", "NoName"}]_vars

\* C7 witness: a click on a board page without a player name was blocked.
BlockedWithoutName ==
  /\ lastImport.clicked
  /\ lastImport.read.set
  /\ lastImport.sent = <<>>
  /\ SlugResolved(pathname)
  /\ ~NameResolved(navbar)
  /\ alertMsg = "NoName"
  /\ inflight = 0

\* C8: no step of the import changes the slot, and a click that follows
\* another on the same page with no extraction in between reads the same
\* summary and builds the same payload.
ImportKeepsSlot ==
  [][ImportStep
       => /\ storage' = storage
          /\ (ClickStep /\ lastImport.clicked)
               => /\ lastImport'.read = lastImport.read
                  /\ lastImport'.sent = lastImport.sent]_vars

\* C8 witness: a click made while the alert of a failed import was showing
\* read the stored summary again and sent it again.
RetriedAfterFailure ==
  /\ lastImport.clicked
  /\ lastImport.after \in {"BackendError", "Unreachable"}
  /\ lastImport.sent # <<>>
  /\ lastImport.read = storage
  /\ storage.set

====
